---- MODULE Spec2Model ----
(***************************************************************************)
(* A model of the two network clients of txcosm:                           *)
(*   - txcosm/PAWSClient.py: PAWSProtocolFactory (connection management    *)
(*     on top of twisted's ReconnectingClientFactory) and PAWSClient       *)
(*     (token-correlated requests and subscriptions);                      *)
(*   - txcosm/HTTPClient.py: HTTPClient's per-request bookkeeping          *)
(*     (pendingRequests / pendingTimeouts / pendingResponses).             *)
(* Everything runs on twisted's single reactor thread: every action below  *)
(* is one reactor callback or one call made by the application, run to     *)
(* completion.                                                             *)
(***************************************************************************)
EXTENDS Integers, Sequences, FiniteSets, TLC

\* ------------------------------------------------------------- bounds
\* connectors created by reactor.connectTCP
MaxConn == 1
\* tokens PAWSClient._generateToken hands out
MaxTok == 2
\* requests HTTPClient._sendRequest issues
MaxHttp == 2

MaxStream == 5    \* bytes PAWSProtocol.dataReceived is given in all
MaxChunk == 3     \* bytes of one dataReceived call
MaxLoc == 2       \* values of a Location header
\* connectors of a factory whose connect() is called again and again
MaxDial == 2

Connectors == 1..MaxConn
Tokens == 1..MaxTok

\* The shapes of an inbound message: {token, status, headers, body}. A
\* response answers a request; a push is an update of a subscribed resource.
Forms == { [kind |-> "response", status |-> 200],
           [kind |-> "response", status |-> 404],
           [kind |-> "push", status |-> 200] }

VARIABLES
  \* PAWSProtocolFactory
  connection,          \* 0 (None) or the connector whose protocol registered last
  connected,
  continueTrying,
  connectDeferred,     \* _connectDeferred: "None" or "pending"
  disconnectDeferred,  \* _disconnectDeferred: "None" or "pending"
  \* the reactor's side of each connector
  cstate,              \* "unused" | "connecting" | "connected" | "disconnected"
  closing,             \* transport.loseConnection() was called on the live transport
  retry,               \* ReconnectingClientFactory's reconnector timer is pending
  \* PAWSClient
  pendingResponses,    \* token -> the deferred registered for it, or NoEntry
  subscriptionHandlers,\* the tokens with a (handler, class) entry
  nextToken,           \* tokens generated so far
  \* observation
  life,                \* token -> what its caller has done and seen so far:
                       \*   "unused", "requested" / "answered" (a verb and its
                       \*   response), "subscribing" / "subscribed" (subscribe
                       \*   called / returned), "unsubscribing" / "unsubscribed"
                       \*   (unsubscribe called / returned), "failed" /
                       \*   "unsubfailed" (the verb or subscribe / unsubscribe
                       \*   raised when _sendRequest returned None)
  alreadyCalled,       \* callback() was called on a deferred that had fired
  lastDispatch,        \* what the _messageHandler call of the latest step did
  lastCall             \* what the connect() / disconnect() / _sendRequest call
                       \* of the latest step did

factoryVars == <<connection, connected, continueTrying, connectDeferred,
                 disconnectDeferred>>
reactorVars == <<cstate, closing, retry>>
clientVars == <<pendingResponses, subscriptionHandlers, nextToken>>
obsVars == <<life, alreadyCalled>>
pawsVars == <<factoryVars, reactorVars, clientVars, obsVars, lastDispatch, lastCall>>

\* The connectors reactor.connectTCP can hand out in the run at hand.
Dialled == DOMAIN cstate

VARIABLES
  \* HTTPClient
  pendingRequests,      \* request ids with a request_d entry
  pendingTimeouts,      \* request ids with a timeout (DelayedCall) entry
  httpPendingResponses, \* HTTPClient.pendingResponses: ids with a response_d entry
  nextId,               \* requests issued so far
  requestD,             \* id -> where request_d's callback chain stands
  timer,                \* id -> "none" | "armed" | "cancelled" | "fired"
  callerFired,          \* id -> callback() calls on response_d
  callerResult,         \* id -> "unset" | "None" | "result"
  wrapper,              \* id -> what the verb built on the request returned
  httpRaised,           \* an exception left a reactor callback of the client
  \* the network side of each request
  op,                   \* id -> "none" | "running" | "completed" | "failed"
  respCode,             \* id -> status code of the response (0: none yet)
  backend,              \* id -> how the backend treats the request
  requestTimeout,       \* self._request_timeout
  timerDelay            \* id -> the delay its DelayedCall was created with

httpVars == <<pendingRequests, pendingTimeouts, httpPendingResponses, nextId,
              requestD, timer, callerFired, callerResult, wrapper, httpRaised,
              op, respCode, backend, requestTimeout, timerDelay>>

VARIABLES
  \* PAWSProtocol (one protocol instance, looked at on its own)
  buffer,               \* self.buffer
  stream,               \* every byte dataReceived was given, in order
  delivered,            \* the messages handed to factory.messageHandler, in order
  frameRaised,          \* an exception left dataReceived
  \* one response looked at by the helpers and verbs of both clients
  resp,                 \* the response
  locOut,               \* what _getLocationFromHeader did with it
  verbOut               \* verb -> what the verb's code after its yield did with it

frameVars == <<buffer, stream, delivered, frameRaised>>
verbVars == <<resp, locOut, verbOut>>

Min(a, b) == IF a < b THEN a ELSE b

\* A deferred of pendingResponses: the request it was created for and how
\* often callback() was called on it.
NoEntry == [method |-> "none", fired |-> 0]
NewEntry(method) == [method |-> method, fired |-> 0]

NoDispatch == [token |-> 0, kind |-> "none", status |-> 0, preLife |-> "none",
               pre |-> NoEntry, preSub |-> FALSE, route |-> "none",
               firedWith |-> 0, handlerCalls |-> 0,
               post |-> NoEntry, postSub |-> FALSE, othersChanged |-> FALSE]

NoCall == [op |-> "none", up |-> FALSE, down |-> FALSE, opened |-> FALSE,
           socketOp |-> FALSE, ret |-> "none", changed |-> FALSE,
           orphaned |-> FALSE, token |-> 0]

\* The client and its factory after __init__, in a run in which connectTCP
\* can hand out n connectors.
PawsInitWith(n) ==
  /\ connection = 0
  /\ connected = FALSE
  /\ continueTrying = TRUE
  /\ connectDeferred = "None"
  /\ disconnectDeferred = "None"
  /\ cstate = [c \in 1..n |-> "unused"]
  /\ closing = [c \in 1..n |-> FALSE]
  /\ retry = [c \in 1..n |-> FALSE]
  /\ pendingResponses = [t \in Tokens |-> NoEntry]
  /\ subscriptionHandlers = {}
  /\ nextToken = 0
  /\ life = [t \in Tokens |-> "unused"]
  /\ alreadyCalled = FALSE
  /\ lastDispatch = NoDispatch
  /\ lastCall = NoCall

PawsInit == PawsInitWith(MaxConn)

\* ------------------------------------------------ PAWSProtocolFactory

\* (mutant of ConnectionStateHandler: connected is only ever set)
StateHandlerSetsOnly(state) ==
  /\ connected' = (connected \/ state)
  /\ connectDeferred' = "None"
  /\ disconnectDeferred' = "None"

\* _connectionStateHandler(state): both pending notifiers fire and are dropped.
ConnectionStateHandler(state) ==
  /\ connected' = state
  /\ connectDeferred' = "None"
  /\ disconnectDeferred' = "None"

\* The transport is connected: the factory says so and its connection is live.
Up == connected /\ connection # 0 /\ cstate[connection] = "connected"
\* The transport is not connected: the factory says so, no connector holds or
\* is opening a connection, and no reconnection is scheduled.
Down ==
  /\ ~connected
  /\ \A c \in Dialled : cstate[c] \in {"unused", "disconnected"} /\ ~retry[c]

\* connect(): the test that decides whether a connection is opened.
ConnectOpens == connection = 0

\* PAWSProtocolFactory.connect
Connect ==
  /\ IF ConnectOpens
     THEN /\ \E c \in Dialled :
               /\ cstate[c] = "unused"
               /\ \A b \in Dialled : b < c => cstate[b] # "unused"
               /\ cstate' = [cstate EXCEPT ![c] = "connecting"]
          /\ connectDeferred' = "pending"
          /\ lastCall' = [op |-> "connect", up |-> Up, down |-> Down,
                          opened |-> TRUE, socketOp |-> TRUE, ret |-> "pending",
                          changed |-> TRUE,
                          \* self._connectDeferred = defer.Deferred() drops
                          \* the factory's reference to an earlier one
                          orphaned |-> connectDeferred = "pending",
                          token |-> 0]
     ELSE /\ lastCall' = [op |-> "connect", up |-> Up, down |-> Down,
                          opened |-> FALSE, socketOp |-> FALSE,
                          ret |-> "succeeded", changed |-> FALSE,
                          orphaned |-> FALSE, token |-> 0]
          /\ UNCHANGED <<connectDeferred, cstate>>
  /\ lastDispatch' = NoDispatch
  /\ UNCHANGED <<connection, connected, continueTrying, disconnectDeferred,
                 closing, retry, clientVars, obsVars>>
  /\ UNCHANGED <<httpVars, frameVars, verbVars>>

\* (mutant of OutstandingLeft: the outstanding requests are failed and
\* dropped)
OutstandingFailed ==
  /\ pendingResponses' = [t \in Tokens |-> NoEntry]
  /\ life' = [t \in Tokens |->
                IF pendingResponses[t] # NoEntry THEN "failed" ELSE life[t]]
  /\ UNCHANGED <<subscriptionHandlers, nextToken, alreadyCalled>>

\* disconnect() and clientConnectionLost have no statement that reaches the
\* client's tables or a deferred stored in them.
OutstandingLeft == UNCHANGED <<clientVars, obsVars>>

\* disconnect(): the test that decides whether there is something to close.
DisconnectCloses == connection # 0

\* PAWSProtocolFactory.disconnect
Disconnect ==
  /\ IF DisconnectCloses
     THEN \* PAWSProtocol.disconnect: transport.loseConnection() acts on a
          \* transport that is still connected and does nothing on a closed one
          /\ closing' = IF cstate[connection] = "connected"
                        THEN [closing EXCEPT ![connection] = TRUE]
                        ELSE closing
          /\ continueTrying' = FALSE
          /\ disconnectDeferred' = "pending"
          /\ lastCall' = [op |-> "disconnect", up |-> Up, down |-> Down,
                          opened |-> FALSE,
                          socketOp |-> (cstate[connection] = "connected"
                                        /\ ~closing[connection]),
                          ret |-> "pending", changed |-> TRUE,
                          \* self._disconnectDeferred = defer.Deferred()
                          \* drops the only reference the factory held to
                          \* the deferred of an earlier call
                          orphaned |-> disconnectDeferred = "pending",
                          token |-> 0]
     ELSE /\ lastCall' = [op |-> "disconnect", up |-> Up, down |-> Down,
                          opened |-> FALSE, socketOp |-> FALSE,
                          ret |-> "succeeded", changed |-> FALSE,
                          orphaned |-> FALSE, token |-> 0]
          /\ UNCHANGED <<closing, continueTrying, disconnectDeferred>>
  /\ lastDispatch' = NoDispatch
  /\ OutstandingLeft
  /\ UNCHANGED <<connection, connected, connectDeferred, cstate, retry>>
  /\ UNCHANGED <<httpVars, frameVars, verbVars>>

\* (mutant of RetryAfter: no reconnection is scheduled)
NoRetryAfter(c) == retry

\* ReconnectingClientFactory.clientConnectionLost / clientConnectionFailed:
\* retry() arms the reconnector timer when continueTrying is set.
RetryAfter(c) == IF continueTrying THEN [retry EXCEPT ![c] = TRUE] ELSE retry

\* The TCP connection of connector c is established: buildProtocol, then
\* PAWSProtocol.connectionMade -> registerConnection.
ConnectionMade(c) ==
  /\ cstate[c] = "connecting"
  /\ cstate' = [cstate EXCEPT ![c] = "connected"]
  /\ continueTrying' = TRUE
  /\ connection' = c
  /\ ConnectionStateHandler(TRUE)
  /\ lastDispatch' = NoDispatch /\ lastCall' = NoCall
  /\ UNCHANGED <<closing, retry, clientVars, obsVars>>
  /\ UNCHANGED <<httpVars, frameVars, verbVars>>

\* clientConnectionFailed
ClientConnectionFailed(c) ==
  /\ cstate[c] = "connecting"
  /\ cstate' = [cstate EXCEPT ![c] = "disconnected"]
  /\ ConnectionStateHandler(FALSE)
  /\ retry' = RetryAfter(c)
  /\ lastDispatch' = NoDispatch /\ lastCall' = NoCall
  /\ UNCHANGED <<connection, continueTrying, closing, clientVars, obsVars>>
  /\ UNCHANGED <<httpVars, frameVars, verbVars>>

\* clientConnectionLost: the connection of connector c ends, requested or not.
ClientConnectionLost(c) ==
  /\ cstate[c] = "connected"
  /\ cstate' = [cstate EXCEPT ![c] = "disconnected"]
  /\ closing' = [closing EXCEPT ![c] = FALSE]
  /\ ConnectionStateHandler(FALSE)
  /\ retry' = RetryAfter(c)
  /\ lastDispatch' = NoDispatch /\ lastCall' = NoCall
  /\ OutstandingLeft
  /\ UNCHANGED <<connection, continueTrying>>
  /\ UNCHANGED <<httpVars, frameVars, verbVars>>

\* ReconnectingClientFactory.retry's reconnector: connector.connect()
Reconnect(c) ==
  /\ retry[c]
  /\ cstate[c] = "disconnected"
  /\ retry' = [retry EXCEPT ![c] = FALSE]
  /\ cstate' = [cstate EXCEPT ![c] = "connecting"]
  /\ lastDispatch' = NoDispatch /\ lastCall' = NoCall
  /\ UNCHANGED <<factoryVars, closing, clientVars, obsVars>>
  /\ UNCHANGED <<httpVars, frameVars, verbVars>>

\* ------------------------------------------------------- PAWSClient

\* _sendRequest: self.pendingResponses[token] = defer.Deferred()
RegisterEntry(pend, token, method) == [pend EXCEPT ![token] = NewEntry(method)]

\* (mutant of FireEntry: the oldest pending deferred is fired)
FireOldest(pend, token) ==
  LET oldest == CHOOSE t \in DOMAIN pend :
                  pend[t] # NoEntry /\ \A u \in DOMAIN pend : u < t => pend[u] = NoEntry
  IN [pend EXCEPT ![oldest].fired = Min(@ + 1, 2)]

\* _messageHandler: self.pendingResponses[token].callback(data)
FireEntry(pend, token) == [pend EXCEPT ![token].fired = Min(@ + 1, 2)]

\* (mutants of ResolveEntry: the entry is kept; every entry is dropped)
KeepEntry(pend, token) == pend
ClearEntries(pend, token) == [t \in DOMAIN pend |-> NoEntry]

\* _messageHandler: del self.pendingResponses[token]
ResolveEntry(pend, token) == [pend EXCEPT ![token] = NoEntry]

\* (mutants of Route: the subscription table is looked up first; a token in
\* neither table is handed to a handler)
RouteSubscriptionFirst(token, pend, subs) ==
  IF token \in subs THEN "subscription"
  ELSE IF pend[token] # NoEntry THEN "response"
  ELSE "unroutable"
RouteToHandler(token, pend, subs) ==
  IF pend[token] # NoEntry THEN "response" ELSE "subscription"

\* _messageHandler: the branch a message carrying `token` takes.
Route(token, pend, subs) ==
  IF pend[token] # NoEntry THEN "response"
  ELSE IF token \in subs THEN "subscription"
  ELSE "unroutable"

\* (mutants of SubscribeAck: the handler is not registered; the table is
\* started afresh)
DropSubscribeAck(subs, token) == subs
ReplaceSubscriptions(subs, token) == {token}

\* subscribe: self.subscriptionHandlers[token] = (handler, class), run when
\* the acknowledgement resumes the generator.
SubscribeAck(subs, token) == subs \cup {token}

\* (mutant of UnsubscribeEntry: the handler stays registered)
KeepSubscription(subs, token) == subs

\* unsubscribe: if token in self.subscriptionHandlers: del ...
UnsubscribeEntry(subs, token) == subs \ {token}

\* _sendRequest(method, resource, token=token): registers when connected,
\* logs "Send failed, no connection exists" and returns None otherwise.
SendRequest(pend, method, token) ==
  IF connected THEN RegisterEntry(pend, token, method) ELSE pend

\* _sendRequest: self.factory.send(json.dumps(message)) runs only in the
\* connected branch.
SendWrites == connected

\* (mutant of SendReturns: a deferred is returned in both branches)
SendReturnsDeferred == "pending"

\* _sendRequest returns the new deferred when connected and falls off its end
\* (None) otherwise.
SendReturns == IF connected THEN "pending" ELSE "None"

\* What the caller of `response = yield self._sendRequest(...)` is doing
\* after the call: waiting on the deferred, or, resumed at once with None,
\* failed with the TypeError of response[...] on None.
Waiting(waiting, failed) == IF SendReturns = "pending" THEN waiting ELSE failed

\* The _sendRequest call of a step, for lastCall.
SendCall(method, token) ==
  [op |-> method, up |-> connected, down |-> ~connected, opened |-> FALSE,
   socketOp |-> SendWrites, ret |-> SendReturns,
   changed |-> SendRequest(pendingResponses, method, token) # pendingResponses,
   orphaned |-> (connected /\ pendingResponses[token] # NoEntry),
   token |-> token]

\* A verb of the client (list_feeds, update_feed, ...): _get/_put/_post/_delete
\* call _sendRequest, which generates the token.
Request ==
  /\ nextToken < MaxTok
  /\ nextToken' = nextToken + 1
  /\ pendingResponses' = SendRequest(pendingResponses, "request", nextToken + 1)
  /\ life' = [life EXCEPT ![nextToken + 1] = Waiting("requested", "failed")]
  /\ lastDispatch' = NoDispatch
  /\ lastCall' = SendCall("request", nextToken + 1)
  /\ UNCHANGED <<factoryVars, reactorVars, subscriptionHandlers, alreadyCalled>>
  /\ UNCHANGED <<httpVars, frameVars, verbVars>>

\* subscribe(resource, handler) up to its yield: _subscribe generates the
\* token and sends. The rest runs in MessageHandler when the deferred fires.
Subscribe ==
  /\ nextToken < MaxTok
  /\ nextToken' = nextToken + 1
  /\ pendingResponses' = SendRequest(pendingResponses, "subscribe", nextToken + 1)
  /\ life' = [life EXCEPT ![nextToken + 1] = Waiting("subscribing", "failed")]
  /\ lastDispatch' = NoDispatch
  /\ lastCall' = SendCall("subscribe", nextToken + 1)
  /\ UNCHANGED <<factoryVars, reactorVars, subscriptionHandlers, alreadyCalled>>
  /\ UNCHANGED <<httpVars, frameVars, verbVars>>

\* unsubscribe(resource, token) up to its yield, with a token subscribe returned.
Unsubscribe(t) ==
  /\ life[t] \in {"subscribed", "unsubscribing", "unsubscribed", "unsubfailed"}
  /\ subscriptionHandlers' = UnsubscribeEntry(subscriptionHandlers, t)
  /\ life' = [life EXCEPT ![t] = Waiting("unsubscribing", "unsubfailed")]
  /\ pendingResponses' = SendRequest(pendingResponses, "unsubscribe", t)
  /\ lastDispatch' = NoDispatch
  /\ lastCall' = SendCall("unsubscribe", t)
  /\ UNCHANGED <<factoryVars, reactorVars, nextToken, alreadyCalled>>
  /\ UNCHANGED <<httpVars, frameVars, verbVars>>

\* _sendRequest called directly with a token the caller supplies: the token
\* of a subscription whose handler is registered.
SendRequestWithToken(t) ==
  /\ t <= nextToken
  /\ t \in subscriptionHandlers
  /\ connected
  /\ pendingResponses' = SendRequest(pendingResponses, "request", t)
  /\ lastDispatch' = NoDispatch /\ lastCall' = NoCall
  /\ UNCHANGED <<factoryVars, reactorVars, subscriptionHandlers, nextToken, obsVars>>
  /\ UNCHANGED <<httpVars, frameVars, verbVars>>

\* What the caller of a request has seen once its deferred has fired.
Returned(method) ==
  CASE method = "subscribe" -> "subscribed"
    [] method = "unsubscribe" -> "unsubscribed"
    [] OTHER -> "answered"

\* What the code resumed by the fired deferred may do before it returns:
\* nothing more, or call unsubscribe(resource, token) at once.
Reacts == {"none", "unsubscribe"}

\* PAWSClient._messageHandler(msg), with everything the fired deferred runs.
MessageHandler(m, react) ==
  LET token == m.token
      entry == pendingResponses[token]
      route == Route(token, pendingResponses, subscriptionHandlers)
      \* callback() on a deferred that has fired raises AlreadyCalledError
      again == route = "response" /\ entry.fired > 0
      resumed == route = "response" /\ ~again
      pend0 == IF route = "response"
               THEN FireEntry(pendingResponses, token) ELSE pendingResponses
      subs1 == IF resumed /\ entry.method = "subscribe"
               THEN SubscribeAck(subscriptionHandlers, token)
               ELSE subscriptionHandlers
      doUnsub == react = "unsubscribe"
      subs2 == IF doUnsub THEN UnsubscribeEntry(subs1, token) ELSE subs1
      pend1 == IF doUnsub THEN SendRequest(pend0, "unsubscribe", token) ELSE pend0
      pend2 == IF resumed THEN ResolveEntry(pend1, token) ELSE pend1
      invoked == route = "subscription"
  IN
  /\ doUnsub => (resumed /\ entry.method = "subscribe")
  /\ pendingResponses' = pend2
  /\ subscriptionHandlers' = subs2
  /\ life' = IF doUnsub
             THEN [life EXCEPT ![token] = Waiting("unsubscribing", "unsubfailed")]
             ELSE IF resumed THEN [life EXCEPT ![token] = Returned(entry.method)]
             ELSE life
  /\ alreadyCalled' = (alreadyCalled \/ again)
  /\ lastDispatch' =
       [token |-> token, kind |-> m.kind,
        \* the status is read only by the code the fired deferred resumes
        status |-> IF route = "response" THEN m.status ELSE 0,
        preLife |-> life[token], pre |-> entry, preSub |-> token \in subscriptionHandlers,
        route |-> route,
        firedWith |-> IF route = "response" THEN m.status ELSE 0,
        handlerCalls |-> IF invoked THEN 1 ELSE 0,
        post |-> pend2[token], postSub |-> token \in subs2,
        othersChanged |-> \E t \in Tokens \ {token} :
                            \/ pend2[t] # pendingResponses[t]
                            \/ (t \in subs2) # (t \in subscriptionHandlers)]

\* PAWSProtocol.dataReceived with one complete message from the service on
\* a live connection (every protocol hands it to the same handler): the
\* factory's messageHandler is PAWSClient._messageHandler. A transport that
\* is closing reads no more.
DataReceived(tok, f) ==
  /\ \E c \in Connectors : cstate[c] = "connected" /\ ~closing[c]
  \* a status other than 200 makes a difference only to a waiting request
  /\ f.status # 200 => pendingResponses[tok] # NoEntry
  /\ LET m == [token |-> tok, kind |-> f.kind, status |-> f.status] IN
     \E react \in Reacts : MessageHandler(m, react)
  /\ lastCall' = NoCall
  /\ UNCHANGED <<factoryVars, reactorVars, nextToken>>
  /\ UNCHANGED <<httpVars, frameVars, verbVars>>

\* ------------------------------------------------------- HTTPClient

Ids == 1..MaxHttp

\* What the simulated backend does with a request: never answers, answers,
\* or refuses the connection.
Backends == {"silent", "responds", "refuses"}
Codes == {200, 404}
\* The values of request_timeout: the 10.0 s of __init__ and a shorter one
\* set by the application.
TimeoutValues == {"default", "short"}

HttpInit ==
  /\ pendingRequests = {}
  /\ pendingTimeouts = {}
  /\ httpPendingResponses = {}
  /\ nextId = 0
  /\ requestD = [i \in Ids |-> "none"]
  /\ timer = [i \in Ids |-> "none"]
  /\ callerFired = [i \in Ids |-> 0]
  /\ callerResult = [i \in Ids |-> "unset"]
  /\ wrapper = [i \in Ids |-> "waiting"]
  /\ httpRaised = FALSE
  /\ op = [i \in Ids |-> "none"]
  /\ respCode = [i \in Ids |-> 0]
  /\ backend = [i \in Ids |-> "none"]
  /\ requestTimeout = "default"
  /\ timerDelay = [i \in Ids |-> "none"]

\* (mutant of TimeoutCleanup: every timeout entry is dropped)
TimeoutCleanupAll(pt, id) == {}

\* _handle_request_timeout: del self.pendingTimeouts[request_id]
TimeoutCleanup(pt, id) == pt \ {id}

\* (mutant of CancelRequest: request_d is left as it is)
LeaveRequest(rd, id) == rd

\* _handle_request_timeout: request_d.addErrback(ignore_cancelled_error);
\* request_d.cancel(). An unfired deferred fails with CancelledError, which
\* ignore_cancelled_error traps; so does one waiting for the body. A deferred
\* that has failed or finished is left as it is.
CancelRequest(rd, id) ==
  IF rd[id] \in {"unfired", "waitingBody"} THEN [rd EXCEPT ![id] = "cancelled"] ELSE rd

\* (mutant of RequestCleanup: the request_d entry is kept)
KeepRequest(pr, id) == pr

\* _handle_response: del self.pendingRequests[request_id]
RequestCleanup(pr, id) == pr \ {id}

\* (mutant of CancelTimeout: the timer is left armed)
KeepTimeout(tm, id) == tm

\* _handle_response: self.pendingTimeouts[request_id].cancel()
CancelTimeout(tm, id) == [tm EXCEPT ![id] = "cancelled"]

\* _handle_response: del self.pendingResponses[request_id]
ResponseCleanup(ps, id) == ps \ {id}

\* (mutant of ListApiKeys: the result is unpacked without the `if result:` test)
ListApiKeysUnguarded(result, code) ==
  IF result = "None" THEN "raised"
  ELSE IF code = 200 THEN "data"
  ELSE "None"

\* list_api_keys after `result = yield self._get(url, headers)`: what the verb
\* returns for a result (None, or a (response, body) pair with its code).
ListApiKeys(result, code) ==
  IF result = "None" THEN "None"
  ELSE IF code = 200 THEN "data"
  ELSE "None"

\* (mutant of CallerFire: response_d is left alone)
CallerSkip(cf, id) == cf

\* response_d.callback(value)
CallerFire(cf, id) == [cf EXCEPT ![id] = Min(@ + 1, 2)]

\* (mutant of RegisterTimeout: the DelayedCall is not stored)
DropTimeout(pt, id) == pt

\* _sendRequest: self.pendingTimeouts[request_id] = timeout
RegisterTimeout(pt, id) == pt \cup {id}

\* The request_timeout setter
SetRequestTimeout(v) ==
  /\ requestTimeout # v
  /\ requestTimeout' = v
  /\ UNCHANGED <<pendingRequests, pendingTimeouts, httpPendingResponses, nextId,
                 requestD, timer, callerFired, callerResult, wrapper, httpRaised,
                 op, respCode, backend, timerDelay>>
  /\ UNCHANGED <<pawsVars, frameVars, verbVars>>

\* HTTPClient._sendRequest (get/put/post/delete), to a backend that behaves as b
HttpSendRequest(b) ==
  /\ nextId < MaxHttp
  /\ LET id == nextId + 1 IN
     /\ nextId' = id
     /\ requestD' = [requestD EXCEPT ![id] = "unfired"]
     /\ op' = [op EXCEPT ![id] = "running"]
     /\ backend' = [backend EXCEPT ![id] = b]
     /\ pendingRequests' = pendingRequests \cup {id}
     /\ timer' = [timer EXCEPT ![id] = "armed"]
     /\ timerDelay' = [timerDelay EXCEPT ![id] = requestTimeout]
     /\ pendingTimeouts' = RegisterTimeout(pendingTimeouts, id)
     /\ httpPendingResponses' = httpPendingResponses \cup {id}
  /\ UNCHANGED <<callerFired, callerResult, wrapper, httpRaised, respCode,
                 requestTimeout>>
  /\ UNCHANGED <<pawsVars, frameVars, verbVars>>

\* The response headers arrive: the agent fires request_d, whose first
\* callback is _handle_response, which runs up to its yield. A request_d that
\* was cancelled swallows the late result. An exception inside the callback
\* (a KeyError, a timer that cannot be cancelled) stays in request_d's chain.
ResponseArrives(id, code) ==
  /\ op[id] = "running"
  /\ backend[id] = "responds"
  /\ op' = [op EXCEPT ![id] = "completed"]
  /\ respCode' = [respCode EXCEPT ![id] = code]
  /\ IF requestD[id] = "unfired"
     THEN LET ok1 == id \in pendingRequests
              ok2 == ok1 /\ id \in pendingTimeouts /\ timer[id] = "armed"
          IN
          /\ pendingRequests' = IF ok1 THEN RequestCleanup(pendingRequests, id)
                                ELSE pendingRequests
          /\ timer' = IF ok2 THEN CancelTimeout(timer, id) ELSE timer
          /\ requestD' = [requestD EXCEPT ![id] = IF ok2 THEN "waitingBody" ELSE "failed"]
     ELSE UNCHANGED <<pendingRequests, timer, requestD>>
  /\ UNCHANGED <<pendingTimeouts, httpPendingResponses, nextId, callerFired,
                 callerResult, wrapper, httpRaised, backend>>
  /\ UNCHANGED <<requestTimeout, timerDelay>>
  /\ UNCHANGED <<pawsVars, frameVars, verbVars>>

\* ResponseBodyProtocol.connectionLost(ResponseDone): `finished` fires and
\* _handle_response resumes after its yield.
BodyDone(id) ==
  /\ requestD[id] = "waitingBody"
  /\ LET ok == id \in httpPendingResponses
         again == ok /\ callerFired[id] > 0
     IN
     /\ httpPendingResponses' = IF ok THEN ResponseCleanup(httpPendingResponses, id)
                                ELSE httpPendingResponses
     /\ callerFired' = IF ok THEN CallerFire(callerFired, id) ELSE callerFired
     /\ callerResult' = IF ok /\ ~again
                        THEN [callerResult EXCEPT ![id] = "result"] ELSE callerResult
     /\ wrapper' = IF ok /\ ~again
                   THEN [wrapper EXCEPT ![id] = ListApiKeys("result", respCode[id])]
                   ELSE wrapper
     /\ requestD' = [requestD EXCEPT ![id] = IF ok /\ ~again THEN "done" ELSE "failed"]
  /\ UNCHANGED <<pendingRequests, pendingTimeouts, nextId, timer, httpRaised,
                 op, respCode, backend>>
  /\ UNCHANGED <<requestTimeout, timerDelay>>
  /\ UNCHANGED <<pawsVars, frameVars, verbVars>>

\* ResponseBodyProtocol.connectionLost with another reason: reason.trap
\* raises it again and `finished` never fires.
BodyFails(id) ==
  /\ requestD[id] = "waitingBody"
  /\ requestD' = [requestD EXCEPT ![id] = "bodyLost"]
  /\ UNCHANGED <<pendingRequests, pendingTimeouts, httpPendingResponses, nextId,
                 timer, callerFired, callerResult, wrapper, httpRaised, op,
                 respCode, backend>>
  /\ UNCHANGED <<requestTimeout, timerDelay>>
  /\ UNCHANGED <<pawsVars, frameVars, verbVars>>

\* The connection cannot be established: request_d fails. _handle_response is
\* skipped and ignore_cancelled_error raises the failure again.
RequestFails(id) ==
  /\ op[id] = "running"
  /\ backend[id] = "refuses"
  /\ op' = [op EXCEPT ![id] = "failed"]
  /\ requestD' = IF requestD[id] = "unfired"
                 THEN [requestD EXCEPT ![id] = "failed"] ELSE requestD
  /\ UNCHANGED <<pendingRequests, pendingTimeouts, httpPendingResponses, nextId,
                 timer, callerFired, callerResult, wrapper, httpRaised, respCode,
                 backend>>
  /\ UNCHANGED <<requestTimeout, timerDelay>>
  /\ UNCHANGED <<pawsVars, frameVars, verbVars>>

\* HTTPClient._handle_request_timeout, called by the reactor when the
\* DelayedCall of request id is due. A KeyError or an AlreadyCalledError ends
\* the handler where it is raised.
HandleRequestTimeout(id) ==
  /\ timer[id] = "armed"
  /\ timer' = [timer EXCEPT ![id] = "fired"]
  /\ LET ok1 == id \in pendingTimeouts
         ok2 == ok1 /\ id \in pendingRequests
         ok3 == ok2 /\ id \in httpPendingResponses
         again == ok3 /\ callerFired[id] > 0
     IN
     /\ pendingTimeouts' = IF ok1 THEN TimeoutCleanup(pendingTimeouts, id)
                           ELSE pendingTimeouts
     /\ requestD' = IF ok2 THEN CancelRequest(requestD, id) ELSE requestD
     /\ callerFired' = IF ok3 THEN CallerFire(callerFired, id) ELSE callerFired
     /\ callerResult' = IF ok3 /\ ~again
                        THEN [callerResult EXCEPT ![id] = "None"] ELSE callerResult
     /\ wrapper' = IF ok3 /\ ~again
                   THEN [wrapper EXCEPT ![id] = ListApiKeys("None", 0)] ELSE wrapper
     /\ httpRaised' = (httpRaised \/ ~ok3 \/ again)
  /\ UNCHANGED <<pendingRequests, httpPendingResponses, nextId, op, respCode, backend>>
  /\ UNCHANGED <<requestTimeout, timerDelay>>
  /\ UNCHANGED <<pawsVars, frameVars, verbVars>>

\* ------------------------------------------------------ PAWSProtocol

\* The bytes of the stream: the delimiter '\n', a byte of a JSON message, and
\* a byte that makes the text around it something json.loads rejects.
Delimiter == "n"
Bytes == {Delimiter, "j", "x"}

\* The data of one dataReceived call.
Chunks == UNION {[1..n -> Bytes] : n \in 1..MaxChunk}

FrameInit ==
  /\ buffer = <<>>
  /\ stream = <<>>
  /\ delivered = <<>>
  /\ frameRaised = FALSE

\* PAWSProtocol.delimiter in self.buffer
HasDelimiter(s) == \E i \in 1..Len(s) : s[i] = Delimiter

\* str.split(delimiter): the pieces between the delimiters, one more than
\* there are delimiters.
RECURSIVE Split(_)
Split(s) ==
  IF ~HasDelimiter(s) THEN <<s>>
  ELSE LET i == CHOOSE k \in 1..Len(s) :
                  s[k] = Delimiter /\ \A j \in 1..(k - 1) : s[j] # Delimiter
       IN <<SubSeq(s, 1, i - 1)>> \o Split(SubSeq(s, i + 1, Len(s)))

\* _messageHandler: json.loads(msg) and data['token'] return normally on the
\* text of a message and raise on the empty string and on anything else.
Parses(msg) == Len(msg) > 0 /\ \A i \in 1..Len(msg) : msg[i] = "j"

\* for msg in msgs[:-1]: self.factory.messageHandler(msg) -- the number of
\* messages handed over: all of them, or those up to and including the first
\* on which the handler raises.
HandedOver(msgs) ==
  IF \A i \in 1..Len(msgs) : Parses(msgs[i]) THEN Len(msgs)
  ELSE CHOOSE i \in 1..Len(msgs) :
         ~Parses(msgs[i]) /\ \A j \in 1..(i - 1) : Parses(msgs[j])

\* PAWSProtocol.dataReceived(data). An exception that leaves it makes the
\* reactor drop the connection, so the protocol receives nothing after it.
FrameReceive(data) ==
  /\ ~frameRaised
  /\ Len(stream) + Len(data) <= MaxStream
  /\ stream' = stream \o data
  /\ LET buf == buffer \o data
         msgs == Split(buf)
         whole == SubSeq(msgs, 1, Len(msgs) - 1)
         n == HandedOver(whole)
     IN IF HasDelimiter(buf)
        THEN /\ delivered' = delivered \o SubSeq(whole, 1, n)
             /\ IF n = Len(whole) /\ Parses(whole[n])
                THEN buffer' = msgs[Len(msgs)] /\ frameRaised' = FALSE
                ELSE \* self.buffer = msgs[-1] is not reached
                     buffer' = buf /\ frameRaised' = TRUE
        ELSE /\ delivered' = delivered
             /\ buffer' = buf
             /\ frameRaised' = FALSE
  /\ UNCHANGED <<pawsVars, httpVars, verbVars>>

\* ------------------------------------------- helpers and verbs on a response

Clients == {"http", "paws"}
Statuses == {200, 201, 404}
Locs == {"a", "b"}

\* The Location header of a response. HTTP: response.headers.hasHeader is
\* false ("absent") or getRawHeaders gives a list of values. PAWS:
\* response['headers'] has no 'LOCATION' key ("absent") or maps it to a JSON
\* value, a string or a list of strings.
LocLists == UNION {[1..n -> Locs] : n \in 0..MaxLoc}
Absent == [form |-> "absent", vs |-> <<>>]
LocHeaders(client) ==
  {Absent} \cup {[form |-> "list", vs |-> l] : l \in LocLists}
    \cup (IF client = "paws"
          THEN {[form |-> "string", vs |-> <<v>>] : v \in Locs} ELSE {})

\* A response: HTTP responses always come with a body (responseBody), a PAWS
\* response is a JSON object that has a 'body' key or not.
Responses ==
  {[client |-> c, status |-> st, loc |-> l, body |-> b] :
     c \in Clients, st \in Statuses, l \in LocHeaders("paws"), b \in BOOLEAN}
NoResponse == [client |-> "none", status |-> 0, loc |-> Absent, body |-> FALSE]

\* What a helper or a verb did with the response.
Unset == [kind |-> "unset", vs |-> <<>>]
Raised == [kind |-> "raised", vs |-> <<>>]
Value(v) == [kind |-> "value", vs |-> <<v>>]
Whole(l) == [kind |-> "list", vs |-> l]
Result(r) == [kind |-> r, vs |-> <<>>]

\* The verbs by what they do with the response: list_* / read_* ("read"),
\* update_* ("update"), delete_* ("delete"), create_* ("create").
Verbs == {"read", "update", "delete", "create"}

VerbInit ==
  /\ resp = NoResponse
  /\ locOut = Unset
  /\ verbOut = [v \in Verbs |-> Unset]

\* HTTPClient._getLocationFromHeader
HttpGetLocation(r) ==
  IF r.status = 201
  THEN IF r.loc.form # "absent"
       THEN IF Len(r.loc.vs) > 0 THEN Value(r.loc.vs[1]) ELSE Raised
       ELSE Raised
  ELSE Raised

\* PAWSClient._getLocationFromHeader: the value of the key as it is.
PawsGetLocation(r) ==
  IF r.status = 201
  THEN IF r.loc.form # "absent"
       THEN IF r.loc.form = "string" THEN Value(r.loc.vs[1]) ELSE Whole(r.loc.vs)
       ELSE Raised
  ELSE Raised

GetLocation(r) == IF r.client = "http" THEN HttpGetLocation(r) ELSE PawsGetLocation(r)

\* _getResponseCodeStatusFromHeader of both clients
GetResponseCodeStatus(r) == r.status = 200

\* location.split("/")[-1] on what _getLocationFromHeader returned: a string
\* has split, a list has not (AttributeError).
IdOf(loc) ==
  CASE loc.kind = "value" -> Result("id")
    [] OTHER -> Raised

\* HTTPClient verbs after `result = yield ...` with a result that is not None.
HttpVerb(v, r) ==
  CASE v = "read" -> IF r.status = 200 THEN Result("data") ELSE Result("None")
    [] v \in {"update", "delete"} ->
         IF GetResponseCodeStatus(r) THEN Result("True") ELSE Result("False")
    [] v = "create" ->
         IF r.status = 201 THEN IdOf(HttpGetLocation(r)) ELSE Result("None")

\* PAWSClient verbs after `response = yield ...`: list_* / read_* decode
\* response['body'] (KeyError without it) whatever the status is; create_*
\* call _getLocationFromHeader whatever the status is.
PawsVerb(v, r) ==
  CASE v = "read" -> IF r.body THEN Result("data") ELSE Raised
    [] v \in {"update", "delete"} ->
         IF GetResponseCodeStatus(r) THEN Result("True") ELSE Result("False")
    [] v = "create" -> IdOf(PawsGetLocation(r))

Verb(v, r) == IF r.client = "http" THEN HttpVerb(v, r) ELSE PawsVerb(v, r)

\* _getLocationFromHeader(response) is called.
ApplyGetLocation ==
  /\ locOut = Unset
  /\ locOut' = GetLocation(resp)
  /\ UNCHANGED <<resp, verbOut>>
  /\ UNCHANGED <<pawsVars, httpVars, frameVars>>

\* The response reaches the code of verb v.
ApplyVerb(v) ==
  /\ verbOut[v] = Unset
  /\ verbOut' = [verbOut EXCEPT ![v] = Verb(v, resp)]
  /\ UNCHANGED <<resp, locOut>>
  /\ UNCHANGED <<pawsVars, httpVars, frameVars>>

\* ------------------------------------------------------ specifications

FactoryNext ==
  \/ Connect
  \/ Disconnect
  \/ \E c \in Connectors : ConnectionMade(c)
  \/ \E c \in Connectors : ClientConnectionFailed(c)
  \/ \E c \in Connectors : ClientConnectionLost(c)
  \/ \E c \in Connectors : Reconnect(c)

ClientNext ==
  \/ Request
  \/ Subscribe
  \/ \E t \in Tokens : Unsubscribe(t)
  \/ \E tok \in Tokens, f \in Forms : DataReceived(tok, f)

HttpNext ==
  \/ \E v \in TimeoutValues : SetRequestTimeout(v)
  \/ \E b \in Backends : HttpSendRequest(b)
  \/ \E id \in Ids, code \in Codes : ResponseArrives(id, code)
  \/ \E id \in Ids : BodyDone(id)
  \/ \E id \in Ids : BodyFails(id)
  \/ \E id \in Ids : RequestFails(id)
  \/ \E id \in Ids : HandleRequestTimeout(id)

vars == <<pawsVars, httpVars, frameVars, verbVars>>
Init == PawsInit /\ HttpInit /\ FrameInit /\ VerbInit

\* The PAWS client driven through its public operations.
Next == FactoryNext \/ ClientNext
Spec == Init /\ [][Next]_vars

\* The PAWS client when _sendRequest is also called with a supplied token,
\* on a connection that is established, lost and re-established by the
\* factory (the application never calls disconnect(), no attempt fails).
NextInternal ==
  \/ ClientNext
  \/ \E t \in Tokens : SendRequestWithToken(t)
  \/ Connect
  \/ \E c \in Connectors : ConnectionMade(c)
  \/ \E c \in Connectors : ClientConnectionLost(c)
  \/ \E c \in Connectors : Reconnect(c)
SpecInternal == Init /\ [][NextInternal]_vars

\* The reactor runs every timer that is due, every connection attempt ends
\* (established or failed) and a transport asked to close does close. Nothing
\* obliges the service to send anything.
FairSpec ==
  /\ Spec
  /\ \A c \in Connectors :
       /\ WF_vars(Reconnect(c))
       /\ WF_vars(ConnectionMade(c) \/ ClientConnectionFailed(c))
       /\ WF_vars(closing[c] /\ ClientConnectionLost(c))

\* The PAWS client against a service that accepts connections and never
\* sends anything, under the same scheduling.
NextSilent == FactoryNext \/ Request \/ Subscribe
FairSpecSilent ==
  /\ Init /\ [][NextSilent]_vars
  /\ \A c \in Connectors :
       /\ WF_vars(Reconnect(c))
       /\ WF_vars(ConnectionMade(c) \/ ClientConnectionFailed(c))
       /\ WF_vars(closing[c] /\ ClientConnectionLost(c))

\* The factory alone, with connect() called as often as the application
\* likes.
Dials == 1..MaxDial
InitDial == PawsInitWith(MaxDial) /\ HttpInit /\ FrameInit /\ VerbInit
DialNext ==
  \/ Connect
  \/ Disconnect
  \/ \E c \in Dials : ConnectionMade(c)
  \/ \E c \in Dials : ClientConnectionFailed(c)
  \/ \E c \in Dials : ClientConnectionLost(c)
  \/ \E c \in Dials : Reconnect(c)
SpecDial == InitDial /\ [][DialNext]_vars

\* One PAWSProtocol given a byte stream in chunks.
FrameNext == \E data \in Chunks : FrameReceive(data)
SpecFrame == Init /\ [][FrameNext]_vars

\* One response of either client given to _getLocationFromHeader and to the
\* verbs.
InitVerbs ==
  /\ PawsInit /\ HttpInit /\ FrameInit
  /\ resp \in {r \in Responses :
                 /\ r.loc \in LocHeaders(r.client)
                 /\ r.client = "http" => r.body}
  /\ locOut = Unset
  /\ verbOut = [v \in Verbs |-> Unset]
VerbNext == ApplyGetLocation \/ \E v \in Verbs : ApplyVerb(v)
SpecVerbs == InitVerbs /\ [][VerbNext]_vars

\* The HTTP client.
SpecHTTP == Init /\ [][HttpNext]_vars

\* The reactor calls every DelayedCall that is due and not cancelled.
FairSpecHTTP == SpecHTTP /\ \A id \in Ids : WF_vars(HandleRequestTimeout(id))

\* -------------------------------------------------------------- claims

C2_FiredAtMostOnce ==
  /\ ~alreadyCalled
  /\ \A t \in Tokens : pendingResponses[t].fired = 0

\* C2's case: a response arrived for a token whose request was already
\* resolved (a duplicated or late response).
C2_Witness ==
  /\ lastDispatch.kind = "response"
  /\ lastDispatch.preLife \in {"answered", "unsubscribed"}
  /\ lastDispatch.route = "unroutable"

C4_SilentBackendTimesOut ==
  /\ \A id \in Ids :
       (backend[id] = "silent")
         ~> (/\ timer[id] = "fired"
             /\ callerFired[id] = 1
             /\ callerResult[id] = "None"
             /\ wrapper[id] = "None")
  /\ [](\A id \in Ids :
          backend[id] = "silent"
            => /\ callerFired[id] <= 1
               /\ wrapper[id] \in {"waiting", "None"}
               /\ ~httpRaised)

\* C4's case: the timer of a request to a silent backend has fired.
C4_Witness ==
  \E id \in Ids :
    /\ backend[id] = "silent"
    /\ timer[id] = "fired"
    /\ callerFired[id] = 1
    /\ wrapper[id] = "None"

\* C5 as claimed: once the timeout handler has run for a request id, the id
\* is in none of pendingResponses, pendingRequests and pendingTimeouts.
C5_TimeoutRemovesEntries ==
  \A id \in Ids :
    timer[id] = "fired"
      => /\ id \notin httpPendingResponses
         /\ id \notin pendingRequests
         /\ id \notin pendingTimeouts

\* C6: in every interleaving of the response, the timer and the cancellation
\* of the request, response_d is fired at most once, by the response path
\* (timer cancelled) or by the timeout path (timer fired) and never by both,
\* and no exception leaves a handler.
C6_ResolvedOnceNoRaise ==
  /\ ~httpRaised
  /\ \A id \in Ids :
       /\ callerFired[id] <= 1
       /\ callerResult[id] = "result" => timer[id] = "cancelled"
       /\ callerResult[id] = "None" => (timer[id] = "fired" /\ requestD[id] # "done")

\* C6's case: the timer fired on a request that had already failed, and the
\* response of another request arrived after its timer had cancelled it.
C6_Witness ==
  /\ \E id \in Ids :
       timer[id] = "fired" /\ requestD[id] = "failed" /\ callerFired[id] = 1
  /\ \E id \in Ids :
       timer[id] = "fired" /\ requestD[id] = "cancelled" /\ op[id] = "completed"
         /\ callerFired[id] = 1

C8_PushAfterUnsubscribeUnroutable ==
  (lastDispatch.kind = "push" /\ lastDispatch.preLife = "unsubscribing")
    => /\ lastDispatch.handlerCalls = 0
       /\ lastDispatch.route = "unroutable"

\* C9 as claimed: connect() opens no connection and returns a fired deferred
\* when the transport is connected, and opens a connection and returns an
\* unfired deferred when it is not.
C9_ConnectOpensUnlessConnected ==
  lastCall.op = "connect"
    => /\ lastCall.up => (~lastCall.opened /\ lastCall.ret = "succeeded")
       /\ lastCall.down => (lastCall.opened /\ lastCall.ret = "pending")

\* C10 as claimed: disconnect() on a transport that is not connected returns
\* a fired deferred, touches no socket and changes no factory state.
C10_DisconnectWhenDownIsNoOp ==
  (lastCall.op = "disconnect" /\ lastCall.down)
    => /\ lastCall.ret = "succeeded"
       /\ ~lastCall.socketOp
       /\ ~lastCall.changed

\* C11 as claimed: disconnect() on a connected transport closes the socket,
\* disables auto-reconnect and returns a deferred that fires when the
\* teardown completes; a deferred can only fire while the factory still
\* holds it, so no call may discard the unfired deferred of an earlier call.
C11_DisconnectDeferredsFire ==
  (lastCall.op = "disconnect" /\ lastCall.up)
    => /\ closing[connection]
       /\ ~continueTrying
       /\ lastCall.ret = "pending"
       /\ disconnectDeferred = "pending"
       /\ ~lastCall.orphaned

\* C12: while no disconnect() has been called since the connection was built
\* (continueTrying is set), the loss of the connection clears connected and
\* schedules a reconnection, a failed attempt schedules another one, every
\* scheduled reconnection is eventually started, and an attempt that
\* succeeds sets connected.
C12_LossTriggersReconnect ==
  /\ [][\A c \in Connectors :
          (continueTrying /\ cstate[c] \in {"connected", "connecting"}
             /\ cstate'[c] = "disconnected")
            => (~connected' /\ retry'[c])]_vars
  /\ [][\A c \in Connectors :
          (cstate[c] = "connecting" /\ cstate'[c] = "connected")
            => (connected' /\ connection' = c)]_vars
  /\ \A c \in Connectors : retry[c] ~> (cstate[c] = "connecting")

\* C12's case: a connection that had been established was lost without a
\* disconnect() and its reconnection is scheduled.
C12_Witness ==
  \E c \in Connectors :
    /\ connection = c
    /\ ~connected
    /\ continueTrying
    /\ cstate[c] = "disconnected"
    /\ retry[c]

\* C13 as claimed: while a disconnect() is waiting for its completion, no
\* connection attempt is started and no connection is established, unless
\* connect() is called.
C13_NoReconnectAfterDisconnect ==
  [][disconnectDeferred = "pending"
       => \A c \in Connectors :
            /\ (cstate[c] # "connecting" /\ cstate'[c] = "connecting")
                 => lastCall'.op = "connect"
            /\ cstate'[c] = "connected" => cstate[c] = "connected"]_vars

\* C15: _sendRequest called while the transport is not connected writes
\* nothing to the transport, leaves pendingResponses as it was and returns no
\* deferred (None), so its caller is resumed at once and ends with a failure
\* instead of waiting.
C15_SendWhenNotConnectedFails ==
  (lastCall.op \in {"request", "subscribe", "unsubscribe"} /\ lastCall.down)
    => /\ ~lastCall.socketOp
       /\ ~lastCall.changed
       /\ lastCall.ret = "None"
       /\ life[lastCall.token] \in {"failed", "unsubfailed"}

\* C15's case: a verb was called after the connection had been lost.
C15_Witness ==
  /\ lastCall.op = "request"
  /\ lastCall.down
  /\ connection # 0
  /\ life[nextToken] = "failed"

\* C14 as claimed: after every dataReceived call the messages handed to the
\* message callback are the delimiter-terminated segments of everything
\* received so far, in order and once each, and the buffer holds the bytes
\* after the last delimiter, so no delimiter.
C14_FramingDeliversSegments ==
  /\ delivered = SubSeq(Split(stream), 1, Len(Split(stream)) - 1)
  /\ buffer = Split(stream)[Len(Split(stream))]
  /\ ~HasDelimiter(buffer)

\* C16: every HTTPClient._sendRequest call takes a request id that is in none
\* of the three tables, starts the network call of that id and of no other,
\* arms that id's timer with the delay request_timeout holds at the call, and
\* adds exactly that id to pendingRequests, pendingTimeouts and
\* pendingResponses.
C16_SendRegistersOneOfEach ==
  [][nextId' # nextId
       => /\ nextId' = nextId + 1
          /\ nextId' \notin (pendingRequests \cup pendingTimeouts
                               \cup httpPendingResponses)
          /\ pendingRequests' = pendingRequests \cup {nextId'}
          /\ pendingTimeouts' = pendingTimeouts \cup {nextId'}
          /\ httpPendingResponses' = httpPendingResponses \cup {nextId'}
          /\ op[nextId'] = "none" /\ op'[nextId'] = "running"
          /\ timer[nextId'] = "none" /\ timer'[nextId'] = "armed"
          /\ timerDelay'[nextId'] = requestTimeout
          /\ \A j \in Ids \ {nextId'} :
               op'[j] = op[j] /\ timer'[j] = timer[j]
                 /\ timerDelay'[j] = timerDelay[j]]_vars

\* C16's case: a request sent after request_timeout was changed, while an
\* earlier request sent under the default is still registered.
C16_Witness ==
  \E i, j \in Ids :
    /\ i < j
    /\ timerDelay[i] = "default" /\ timerDelay[j] = "short"
    /\ {i, j} \subseteq pendingRequests
    /\ {i, j} \subseteq pendingTimeouts
    /\ {i, j} \subseteq httpPendingResponses
    /\ timer[j] = "armed" /\ op[j] = "running"

\* C17 as claimed: the result given to the caller of a request that timed
\* out against a silent backend differs from the result given to the caller
\* of a request whose connection could not be established.
C17_TimeoutDistinctFromRefused ==
  \A i, j \in Ids :
    (/\ backend[i] = "silent" /\ timer[i] = "fired" /\ callerFired[i] = 1
     /\ op[j] = "failed" /\ callerFired[j] = 1)
      => callerResult[i] # callerResult[j]

\* C18: a request whose connection could not be established has its caller's
\* deferred eventually fired, once, with None; the verb built on it returns
\* None and no exception reaches the caller or leaves a handler.
C18_RefusedResolvesWithNone ==
  /\ \A id \in Ids :
       (op[id] = "failed")
         ~> (callerFired[id] = 1 /\ callerResult[id] = "None"
               /\ wrapper[id] = "None")
  /\ [](\A id \in Ids :
          op[id] = "failed"
            => /\ callerFired[id] <= 1
               /\ callerResult[id] \in {"unset", "None"}
               /\ wrapper[id] \in {"waiting", "None"}
               /\ ~httpRaised)

\* C18's case: the connection of a request was refused before its timer ran,
\* and its caller now has None.
C18_Witness ==
  \E id \in Ids :
    /\ op[id] = "failed"
    /\ requestD[id] = "failed"
    /\ callerFired[id] = 1
    /\ callerResult[id] = "None"

\* C19 as claimed: for a response with status 201, _getLocationFromHeader of
\* either client returns the first Location value when there is at least one
\* and raises when there is none (header missing or without a value).
C19_LocationOfCreated ==
  (locOut # Unset /\ resp.status = 201)
    => locOut = IF Len(resp.loc.vs) = 0 THEN Raised ELSE Value(resp.loc.vs[1])

\* C20 as claimed: for every verb of either client, a response whose status
\* is not the one the verb expects (201 for create, 200 otherwise) gives the
\* caller None or False and no exception, and a create verb given a 201
\* response raises only when the response has no Location value.
C20_UnexpectedStatusIsSoftFailure ==
  \A v \in Verbs :
    /\ (verbOut[v] # Unset /\ resp.status # (IF v = "create" THEN 201 ELSE 200))
         => verbOut[v] \in {Result("None"), Result("False")}
    /\ (v = "create" /\ resp.status = 201 /\ verbOut[v] = Raised)
         => Len(resp.loc.vs) = 0

\* C21: after every PAWSClient operation and every dispatch no token is in
\* both pendingResponses and subscriptionHandlers; the dispatch of a subscribe
\* acknowledgement registers the handler and deletes the pending entry in one
\* go, so that when subscribe has returned the token is in
\* subscriptionHandlers only.
C21_TablesDisjoint ==
  /\ \A t \in Tokens : ~(pendingResponses[t] # NoEntry /\ t \in subscriptionHandlers)
  /\ (lastDispatch.route = "response" /\ lastDispatch.pre.method = "subscribe"
        /\ life[lastDispatch.token] = "subscribed")
       => /\ lastDispatch.token \in subscriptionHandlers
          /\ pendingResponses[lastDispatch.token] = NoEntry

\* C21's case: a subscribe acknowledgement has just been dispatched while
\* another token is waiting for its response.
C21_Witness ==
  /\ lastDispatch.route = "response" /\ lastDispatch.pre.method = "subscribe"
  /\ lastDispatch.token \in subscriptionHandlers
  /\ \E t \in Tokens : pendingResponses[t] # NoEntry

\* C22 as claimed: when the acknowledgement of a subscribe has a status other
\* than 200, the dispatch that resumes subscribe leaves no
\* subscriptionHandlers entry for the token.
C22_HandlerOnlyOnSuccess ==
  (lastDispatch.route = "response" /\ lastDispatch.pre.method = "subscribe"
     /\ lastDispatch.status # 200)
    => ~lastDispatch.postSub /\ lastDispatch.token \notin subscriptionHandlers

\* C23: a token leaves subscriptionHandlers only in a step in which
\* unsubscribe is called for that token: dispatching a push, a response or an
\* unroutable message, connect(), disconnect(), the loss, failure or
\* re-establishment of the connection and requests for other tokens leave
\* every entry where it is.
C23_OnlyUnsubscribeRemoves ==
  [][\A t \in Tokens :
       (t \in subscriptionHandlers /\ t \notin subscriptionHandlers')
         => (lastCall'.op = "unsubscribe" /\ lastCall'.token = t)]_vars

\* C23's case: a subscription that is still registered after disconnect()
\* was called and the connection has gone.
C23_Witness ==
  \E t \in subscriptionHandlers :
    /\ life[t] = "subscribed"
    /\ ~connected /\ connection # 0 /\ ~continueTrying
    /\ cstate[connection] = "disconnected"

\* C24: a step in which disconnect() is called, and a step in which an
\* established connection ends, leave pendingResponses as it is and resume no
\* caller: every outstanding entry is still there and none of the deferreds
\* has fired.
C24_TeardownLeavesPending ==
  [][(\/ lastCall'.op = "disconnect"
      \/ \E c \in Connectors :
           cstate[c] = "connected" /\ cstate'[c] = "disconnected")
       => /\ pendingResponses' = pendingResponses
          /\ life' = life
          /\ alreadyCalled' = alreadyCalled]_vars

\* C24's case: disconnect() was called and the connection has ended while a
\* request was outstanding; its entry is there, unfired, and its caller waits.
C24_Witness ==
  \E t \in Tokens :
    /\ pendingResponses[t] # NoEntry /\ pendingResponses[t].fired = 0
    /\ life[t] \in {"requested", "subscribing"}
    /\ connection # 0 /\ cstate[connection] = "disconnected"
    /\ ~connected /\ ~continueTrying

\* C25 as claimed: a _sendRequest call for a token that has an entry in
\* pendingResponses does not replace the entry: the deferred registered
\* before the call is still the one registered after it.
C25_PendingEntryNotReplaced ==
  (lastCall.op \in {"request", "subscribe", "unsubscribe"}) => ~lastCall.orphaned

\* C26 as claimed: whatever connect(), disconnect() and the connection events
\* have happened, at most one connector of the factory holds a TCP connection
\* that is open or being opened.
C26_OneConnection ==
  Cardinality({c \in Dialled : cstate[c] \in {"connecting", "connected"}}) <= 1

\* C27 as claimed: every deferred connect() returned for a new attempt is
\* still the one the factory will fire when the attempt ends, also when
\* connect() is called again before an earlier attempt has ended.
C27_ConnectDeferredsFire ==
  (lastCall.op = "connect" /\ lastCall.opened)
    => /\ lastCall.ret = "pending" /\ connectDeferred = "pending"
       /\ ~lastCall.orphaned

\* C28 as claimed: once the response of a request has been handled (its
\* caller has the result), the timer of the request is cancelled and the
\* request id is not in pendingTimeouts.
C28_ResponseDestroysTimeoutEntry ==
  \A id \in Ids :
    requestD[id] = "done" => (timer[id] = "cancelled" /\ id \notin pendingTimeouts)

\* C29: whenever the caller's deferred of a request is fired with the result,
\* the timer of the request was cancelled before that step; whenever it is
\* fired with None by the timeout handler, request_d has been cancelled by
\* the time it fires (it is not waiting for the response or the body any
\* more).
C29_CancelBeforeResolve ==
  [][\A id \in Ids :
       callerFired'[id] > callerFired[id]
         => /\ callerResult'[id] = "result" => timer[id] = "cancelled"
            /\ callerResult'[id] = "None"
                 => (timer'[id] = "fired"
                       /\ requestD'[id] \notin {"unfired", "waitingBody"})]_vars

\* C29's case: one request answered and one request timed out while it was
\* in flight.
C29_Witness ==
  \E i, j \in Ids :
    /\ callerResult[i] = "result" /\ timer[i] = "cancelled"
    /\ callerResult[j] = "None" /\ requestD[j] = "cancelled"

\* C30: when an unsubscribe call has run up to its yield, the token it was
\* given has no subscriptionHandlers entry and, if the request was sent, the
\* entry the request registered in pendingResponses is under that same token;
\* and as long as an unsubscribe request is awaiting its acknowledgement no
\* handler is registered for its token.
C30_UnsubscribeRemovesFirst ==
  /\ lastCall.op = "unsubscribe"
       => /\ lastCall.token \notin subscriptionHandlers
          /\ life[lastCall.token] \in {"unsubscribing", "unsubfailed"}
          /\ lastCall.socketOp
               => pendingResponses[lastCall.token] = NewEntry("unsubscribe")
  /\ \A t \in Tokens :
       pendingResponses[t].method = "unsubscribe" => t \notin subscriptionHandlers

\* C30's case: unsubscribe was just called on a connected client for a token
\* that had a handler, and the request is on the wire.
C30_Witness ==
  /\ lastCall.op = "unsubscribe" /\ lastCall.socketOp
  /\ life[lastCall.token] = "unsubscribing"
  /\ pendingResponses[lastCall.token].method = "unsubscribe"

\* C31: the dispatch of a message whose token is in neither pendingResponses
\* nor subscriptionHandlers (a late or duplicated response included) takes
\* the unroutable branch: both tables are as they were, for this token and
\* for every other, no deferred is fired, no caller is resumed and no handler
\* is called.
C31_UnroutableDropped ==
  (lastDispatch.route # "none" /\ lastDispatch.pre = NoEntry /\ ~lastDispatch.preSub)
    => /\ lastDispatch.route = "unroutable"
       /\ lastDispatch.firedWith = 0
       /\ lastDispatch.handlerCalls = 0
       /\ lastDispatch.post = NoEntry /\ ~lastDispatch.postSub
       /\ pendingResponses[lastDispatch.token] = NoEntry
       /\ lastDispatch.token \notin subscriptionHandlers
       /\ ~lastDispatch.othersChanged
       /\ life[lastDispatch.token] = lastDispatch.preLife
       /\ ~alreadyCalled

\* C31's case: a second response for a request that was answered arrives
\* while another token has an entry.
C31_Witness ==
  /\ lastDispatch.route = "unroutable"
  /\ lastDispatch.kind = "response"
  /\ lastDispatch.preLife = "answered"
  /\ \E t \in Tokens : t # lastDispatch.token
       /\ (pendingResponses[t] # NoEntry \/ t \in subscriptionHandlers)

\* C32: the dispatch of a message whose token has a pendingResponses entry
\* fires the deferred of that entry, which had not fired, with that message,
\* and resumes the caller that registered it; no handler is called and the
\* entries of all other tokens, pending or subscribed, are as they were,
\* whichever request was issued first.
C32_ResponseToItsCaller ==
  lastDispatch.route = "response"
    => /\ lastDispatch.pre # NoEntry /\ lastDispatch.pre.fired = 0
       /\ lastDispatch.firedWith = lastDispatch.status
       /\ lastDispatch.handlerCalls = 0
       /\ ~lastDispatch.othersChanged
       /\ life[lastDispatch.token]
            \in {Returned(lastDispatch.pre.method), "unsubscribing", "unsubfailed"}
       /\ \A t \in Tokens \ {lastDispatch.token} :
            pendingResponses[t] # NoEntry => pendingResponses[t].fired = 0

\* C32's case: of two pending requests the one issued later was answered
\* first; the earlier one is still pending and its caller waits.
C32_Witness ==
  \E t, u \in Tokens :
    /\ u < t
    /\ lastDispatch.route = "response" /\ lastDispatch.token = t
    /\ life[t] = "answered"
    /\ pendingResponses[u] # NoEntry /\ life[u] = "requested"

\* C33: whenever the factory's connected flag is set, factory.connection is
\* the protocol of a connector whose connection is established and has not
\* ended; so every _sendRequest call that wrote to the transport wrote to
\* such a connection.
C33_ConnectedMeansLive ==
  /\ connected => (connection # 0 /\ cstate[connection] = "connected")
  /\ (lastCall.op \in {"request", "subscribe", "unsubscribe"} /\ lastCall.socketOp)
       => (connected /\ connection # 0 /\ cstate[connection] = "connected")

\* C33's case: a request was written to a connection that the factory
\* re-established after the first one was lost.
C33_Witness ==
  /\ lastCall.op = "request" /\ lastCall.socketOp
  /\ \E t \in Tokens : life[t] = "failed"
  /\ connected /\ cstate[connection] = "connected"

\* C34 as claimed: when the code resumed by a subscribe acknowledgement calls
\* unsubscribe(resource, token) before it returns, the pendingResponses entry
\* that call registered is still there when _messageHandler has returned.
C34_ReentrantEntryKept ==
  (lastDispatch.route = "response" /\ lastDispatch.pre.method = "subscribe"
     /\ life[lastDispatch.token] = "unsubscribing")
    => /\ lastDispatch.post = NewEntry("unsubscribe")
       /\ pendingResponses[lastDispatch.token] = NewEntry("unsubscribe")

\* C35 as claimed: a push message for a token whose subscribe request awaits
\* its acknowledgement is not taken for the acknowledgement: it fires no
\* deferred and subscribe is still waiting after it.
C35_PushNotTakenForAck ==
  (lastDispatch.kind = "push" /\ lastDispatch.preLife = "subscribing")
    => (lastDispatch.route # "response" /\ lastDispatch.firedWith = 0
          /\ life[lastDispatch.token] = "subscribing")

\* C36 as claimed: the deferred returned to the caller of every HTTP request
\* that was sent eventually fires, whatever the backend does.
C36_CallerAlwaysResolved ==
  \A id \in Ids : (op[id] # "none") ~> (callerFired[id] >= 1)

\* C37: while the timer of a request is armed, the caller's deferred of the
\* request has not fired and the request id is in pendingRequests,
\* pendingTimeouts and pendingResponses; and every id in pendingRequests is
\* in pendingResponses.
C37_ArmedMeansRegistered ==
  /\ \A id \in Ids :
       timer[id] = "armed"
         => /\ callerFired[id] = 0 /\ callerResult[id] = "unset"
            /\ id \in pendingRequests
            /\ id \in pendingTimeouts
            /\ id \in httpPendingResponses
  /\ pendingRequests \subseteq httpPendingResponses

\* C37's case: one request is waiting with its timer armed while another,
\* timed out, has left its id in pendingRequests and pendingResponses.
C37_Witness ==
  \E a, b \in Ids :
    /\ timer[a] = "armed" /\ requestD[a] = "unfired"
    /\ timer[b] = "fired" /\ b \in pendingRequests /\ b \in httpPendingResponses

\* C38: every step of the HTTP client (a request sent, a response, a body
\* completed or lost, a failure, a timeout) changes the table entries, the
\* timer, request_d and the caller's deferred of one request id at most; the
\* entries, the timer and the deferreds of every other id are as they were.
C38_RequestsIndependent ==
  [][\A a, b \in Ids :
       LET Touched(i) ==
             \/ (i \in pendingRequests) # (i \in pendingRequests')
             \/ (i \in pendingTimeouts) # (i \in pendingTimeouts')
             \/ (i \in httpPendingResponses) # (i \in httpPendingResponses')
             \/ timer'[i] # timer[i]
             \/ requestD'[i] # requestD[i]
             \/ callerFired'[i] # callerFired[i]
             \/ callerResult'[i] # callerResult[i]
             \/ wrapper'[i] # wrapper[i]
       IN (Touched(a) /\ Touched(b)) => a = b]_vars

\* C38's case: one request has timed out while another is registered in all
\* three tables with its timer armed and its caller waiting.
C38_Witness ==
  \E a, b \in Ids :
    /\ timer[a] = "fired" /\ callerResult[a] = "None"
    /\ timer[b] = "armed" /\ callerFired[b] = 0
    /\ b \in pendingRequests /\ b \in pendingTimeouts /\ b \in httpPendingResponses

\* C39 as claimed: when the message callback has raised during a
\* dataReceived call, every complete message of the stream received so far
\* has still been handed to the callback, once and in order: those before the
\* failing one, the failing one, and those that follow it in the chunk.
C39_RaiseKeepsFraming ==
  frameRaised => delivered = SubSeq(Split(stream), 1, Len(Split(stream)) - 1)

\* C40 as claimed: a call of unsubscribe(resource, token) made while the
\* client is not connected, so that nothing can be sent, leaves the client's
\* state as it was: the subscriptionHandlers entry of the token is still
\* present and no pending response is registered.
C40_UnsentUnsubscribeKeepsHandler ==
  [][(lastCall'.op = "unsubscribe" /\ ~connected)
       => /\ subscriptionHandlers' = subscriptionHandlers
          /\ pendingResponses' = pendingResponses]_vars

====
